---- MODULE Spec2Model ----
(***************************************************************************)
(* buicap_py: the ScannerIntegrationAPI facade (api.py) over the vendor    *)
(* check-scanner library loaded by DCLibraryInitializer (_core.py).        *)
(*                                                                         *)
(* One facade instance is modelled, driven by a single-threaded caller.    *)
(* The vendor library is the environment: the symbols it exports, and for  *)
(* each native call either the code it returns or the exception ctypes     *)
(* raises for it.  Text is a sequence of code points, bytes a sequence of  *)
(* 0..255, and an f-string message a sequence of pieces.                   *)
(***************************************************************************)
EXTENDS Integers, Sequences, FiniteSets, TLC

VARIABLES
    phase,        \* the caller's position: "new", "constructed", "failed"
    dll_loaded,   \* self._dll_loaded
    lib,          \* self.lib
    dll_path,     \* self.dll_path
    nOps,         \* operations invoked so far (history, bounds the run)
    nativeCalls,  \* native calls issued so far (history)
    exitCalls,    \* BUICExit calls issued so far (history)
    last          \* the last operation: arguments, outcome, native calls

vars == <<phase, dll_loaded, lib, dll_path, nOps, nativeCalls, exitCalls, last>>

----------------------------------------------------------------------------
(* Bounds of the model *)

MaxOps == 3

----------------------------------------------------------------------------
(* Program constants *)

SCAN_NO_CHEQUES == -212
SCAN_DOUBLE_FEED == -217
MicrBufferSize == 80
DocStatusLen == 32

----------------------------------------------------------------------------
(* Attribute values: an attribute is unset, None, or holds a value *)

UnsetLib == [st |-> "unset", exports |-> {}]
NoneLib == [st |-> "None", exports |-> {}]
WinDLL(exports) == [st |-> "set", exports |-> exports]

UnsetPath == [st |-> "unset", v |-> ""]
NonePath == [st |-> "None", v |-> ""]
SomePath(p) == [st |-> "set", v |-> p]

(* f-string pieces: literal text or an interpolated integer *)
Lit(s) == [isInt |-> FALSE, s |-> s, n |-> 0]
Num(n) == [isInt |-> TRUE, s |-> "", n |-> n]

Range(f) == {f[i] : i \in DOMAIN f}

(* Outcomes of an operation *)
Return(v) == [kind |-> "return", exc |-> "", msg |-> <<>>, value |-> v]
Raise(exc, msg) == [kind |-> "raise", exc |-> exc, msg |-> msg, value |-> 0]

(* The Python values None and a null pointer argument *)
PyNone == [none |-> TRUE, bytes |-> <<>>]
Bytes(b) == [none |-> FALSE, bytes |-> b]

----------------------------------------------------------------------------
(* The vendor library's entry points *)

(* The names setup_functions resolves, in its order *)
SetupSymbols ==
    << "BUICSetParamString", "BUICInit", "IsDCCUSBScannerAvailable",
       "BUICExit", "BUICEjectDocument", "BUICEjectPocket", "DCCCleanMode",
       "BUICClearDocument", "DocketPortCalibrate", "BUICSetParam",
       "BUICGetParam", "DCCScan" >>

(* The names the facade's operations call *)
CallSiteSymbols ==
    { "BUICSetParamString", "BUICInit", "IsDCCUSBScannerAvailable",
      "BUICExit", "BUICEjectDocument", "BUICEjectPocket", "DCCCleanMode",
      "BUICCleanDocument", "DocketPortCalibrate", "BUICSetParam",
      "BUICGetParam", "DCCScan" }

AllSymbols == Range(SetupSymbols) \cup CallSiteSymbols

(* Libraries of the environment: every symbol, or one symbol missing *)
Libraries == {AllSymbols} \cup {AllSymbols \ {s} : s \in AllSymbols}

(* setup_functions: touches each name in turn; 0 when all resolve, else the
   index of the first name the library does not export (AttributeError) *)
RECURSIVE FirstMissing(_, _)
FirstMissing(exports, i) ==
    IF i > Len(SetupSymbols) THEN 0
    ELSE IF SetupSymbols[i] \notin exports THEN i
    ELSE FirstMissing(exports, i + 1)

setup_functions(exports) == FirstMissing(exports, 1)

----------------------------------------------------------------------------
(* Construction *)

Paths == {"buicap32.dll", "nowhere.dll"}

NoLast ==
    [op |-> "none", args |-> <<>>, was_loaded |-> FALSE,
     follows_close |-> FALSE, out |-> Return(PyNone), natives |-> <<>>,
     exists |-> TRUE, loads |-> 0]

Init ==
    /\ phase = "new"
    /\ dll_loaded = FALSE
    /\ lib = UnsetLib
    /\ dll_path = UnsetPath
    /\ nOps = 0
    /\ nativeCalls = 0
    /\ exitCalls = 0
    /\ last = NoLast

DCLibraryInitializer_no_setup(loads, exports) ==
    IF ~loads
    THEN [ok |-> FALSE, lib |-> UnsetLib,
          err |-> Raise("BuicapException",
                        <<Lit("Error loading DLL: "), Lit("OSError")>>)]
    ELSE [ok |-> TRUE, lib |-> WinDLL(exports), err |-> Return(PyNone)]

(* DCLibraryInitializer.__init__: WinDLL then setup_functions; any exception
   becomes BuicapException("Error loading DLL: ...") *)
DCLibraryInitializer(loads, exports) ==
    IF ~loads
    THEN [ok |-> FALSE, lib |-> UnsetLib,
          err |-> Raise("BuicapException",
                        <<Lit("Error loading DLL: "), Lit("OSError")>>)]
    ELSE IF setup_functions(exports) # 0
    THEN [ok |-> FALSE, lib |-> UnsetLib,
          err |-> Raise("BuicapException",
                        <<Lit("Error loading DLL: "),
                          Lit(SetupSymbols[setup_functions(exports)])>>)]
    ELSE [ok |-> TRUE, lib |-> WinDLL(exports), err |-> Return(PyNone)]

(* ScannerIntegrationAPI.__init__(dll_path); exists is os.path.exists, loads
   whether WinDLL can load the file, exports what the file exports *)
Construct(path, exists, loads, exports) ==
    /\ phase = "new"
    /\ IF ~exists
       THEN /\ dll_loaded' = FALSE
            /\ UNCHANGED <<lib, dll_path>>
            /\ phase' = "failed"
            /\ last' = [NoLast EXCEPT !.op = "__init__", !.args = <<path>>,
                   !.exists = FALSE,
                   !.out = Raise("FileNotFoundError",
                                 <<Lit("DLL not found in "), Lit(path)>>)]
       ELSE LET init == DCLibraryInitializer(loads, exports) IN
            /\ dll_path' = SomePath(path)
            /\ lib' = IF init.ok THEN init.lib ELSE lib
            /\ dll_loaded' = init.ok
            /\ phase' = IF init.ok THEN "constructed" ELSE "failed"
            /\ last' = [NoLast EXCEPT !.op = "__init__", !.args = <<path>>,
                   !.out = init.err, !.loads = 1]
    /\ nOps' = nOps + 1
    /\ UNCHANGED <<nativeCalls, exitCalls>>

----------------------------------------------------------------------------
(* Text and bytes *)

(* str.encode("utf-8") of one code point *)
Utf8OfCodePoint(c) ==
    IF c < 128 THEN <<c>>
    ELSE IF c < 2048 THEN <<192 + (c \div 64), 128 + (c % 64)>>
    ELSE IF c < 65536
    THEN <<224 + (c \div 4096), 128 + ((c \div 64) % 64), 128 + (c % 64)>>
    ELSE <<240 + (c \div 262144), 128 + ((c \div 4096) % 64),
           128 + ((c \div 64) % 64), 128 + (c % 64)>>

RECURSIVE EncodeUtf8(_)
EncodeUtf8(s) ==
    IF s = <<>> THEN <<>> ELSE Utf8OfCodePoint(Head(s)) \o EncodeUtf8(Tail(s))

(* str.encode("ascii"): one byte per code point below 128; any other code
   point fails the whole encoding (UnicodeEncodeError) *)
EncodeAscii(s) ==
    IF \A i \in DOMAIN s : s[i] < 128
    THEN [ok |-> TRUE, bytes |-> s]
    ELSE [ok |-> FALSE, bytes |-> <<>>]

(* bytes.partition(b"\x00")[0]: the bytes before the first NUL *)
RECURSIVE BeforeNul(_)
BeforeNul(b) ==
    IF b = <<>> \/ Head(b) = 0 THEN <<>> ELSE <<Head(b)>> \o BeforeNul(Tail(b))

(* bytes.decode("ascii", errors="ignore"): undecodable bytes are dropped *)
DecodeAsciiIgnore(b) == SelectSeq(b, LAMBDA x : x < 128)

(* str.strip(): leading and trailing whitespace removed *)
Whitespace == {9, 10, 11, 12, 13, 28, 29, 30, 31, 32}

RECURSIVE LStrip(_)
LStrip(s) ==
    IF s # <<>> /\ Head(s) \in Whitespace THEN LStrip(Tail(s)) ELSE s

RECURSIVE RStrip(_)
RStrip(s) ==
    IF s # <<>> /\ s[Len(s)] \in Whitespace
    THEN RStrip(SubSeq(s, 1, Len(s) - 1)) ELSE s

Strip(s) == RStrip(LStrip(s))

(* ctypes.create_string_buffer(80) after the library wrote `written` to it *)
MicrRaw(written) ==
    [i \in 1..MicrBufferSize |-> IF i <= Len(written) THEN written[i] ELSE 0]

MicrText(written) == Strip(DecodeAsciiIgnore(BeforeNul(MicrRaw(written))))

(* list((c_int * 32)()) after the library set the slots in `flags` *)
DocStatus(flags) == [i \in 1..DocStatusLen |-> IF i \in flags THEN 1 ELSE 0]

----------------------------------------------------------------------------
(* Error code dictionary *)

error_dict ==
    (SCAN_NO_CHEQUES :> "no document had been pre-scanned")
    @@ (SCAN_DOUBLE_FEED :> "a document had been pre-scanned")

_error_message(error_code) ==
    IF error_code \in DOMAIN error_dict
    THEN <<Lit(error_dict[error_code])>>
    ELSE <<Lit("Unknown error (code: "), Num(error_code), Lit(")")>>

----------------------------------------------------------------------------
(* Native calls *)

Codes == {SCAN_DOUBLE_FEED, SCAN_NO_CHEQUES, -1, 0, 1}

(* What the library does with a call: throws (ctypes raises OSError) or
   returns a code *)
Replies ==
    {[thrown |-> TRUE, code |-> 0]} \cup
    {[thrown |-> FALSE, code |-> c] : c \in Codes}

NativeEntry(fn, args, reply) ==
    [fn |-> fn, args |-> args, thrown |-> reply.thrown,
     ret |-> IF reply.thrown THEN 0 ELSE reply.code]

(* self.lib.fn(args): the attribute lookup resolves the symbol
   (AttributeError when self.lib is None or the library lacks it), then the
   call is issued *)
Invoke(fn, args, reply) ==
    IF lib.st # "set" \/ fn \notin lib.exports
    THEN [called |-> FALSE, thrown |-> TRUE, exc |-> "AttributeError",
          code |-> 0, log |-> <<>>]
    ELSE IF reply.thrown
    THEN [called |-> TRUE, thrown |-> TRUE, exc |-> "OSError",
          code |-> 0, log |-> <<NativeEntry(fn, args, reply)>>]
    ELSE [called |-> TRUE, thrown |-> FALSE, exc |-> "",
          code |-> reply.code, log |-> <<NativeEntry(fn, args, reply)>>]

----------------------------------------------------------------------------
(* The caller invokes an operation on the constructed facade *)

Invoked == phase = "constructed" /\ nOps < MaxOps

(* The operation ends with outcome `out` having issued the calls in `log` *)
Finish(op, args, out, log) ==
    /\ last' = [op |-> op, args |-> args, was_loaded |-> dll_loaded,
                follows_close |-> (last.op = "close" /\ last.was_loaded),
                out |-> out, natives |-> log, exists |-> TRUE,
                loads |-> 0]
    /\ nOps' = nOps + 1
    /\ nativeCalls' = nativeCalls + Len(log)
    /\ exitCalls' =
          exitCalls + Cardinality({i \in DOMAIN log : log[i].fn = "BUICExit"})
    /\ phase' = phase

NotLoadedMessage_named(op) == <<Lit("DLL not loaded: "), Lit(op)>>

(* The text of the decorator's BuicapException *)
NotLoadedMessage(op) == <<Lit("DLL not loaded")>>

check_loaded_unguarded(op, args, func) == func

(* The decorator: reject when the flag is down, else run the function *)
check_loaded(op, args, func) ==
    IF ~dll_loaded
    THEN /\ Finish(op, args,
                   Raise("BuicapException", NotLoadedMessage(op)), <<>>)
         /\ UNCHANGED <<dll_loaded, lib, dll_path>>
    ELSE func

(* try: return int(native) / except Exception: raise BuicapException(text) *)
TryNative(r, text) ==
    IF r.thrown THEN Raise("BuicapException", <<Lit(text)>>)
    ELSE Return(r.code)

----------------------------------------------------------------------------
(* Operations of ScannerIntegrationAPI *)

Keep == UNCHANGED <<dll_loaded, lib, dll_path>>

buic_set_param_string(iParameter, sParamString, reply) ==
    /\ Invoked
    /\ check_loaded("buic_set_param_string", <<iParameter, sParamString>>,
         LET r == Invoke("BUICSetParamString",
                         <<iParameter, Bytes(EncodeUtf8(sParamString))>>,
                         reply)
         IN  /\ Finish("buic_set_param_string", <<iParameter, sParamString>>,
                   IF r.thrown THEN Raise(r.exc, <<>>)
                   ELSE IF r.code # 0
                   THEN Raise("BuicapException",
                              <<Lit("Failed to set parameter "),
                                Num(iParameter), Lit(": ")>>
                              \o _error_message(r.code))
                   ELSE Return(r.code),
                   r.log)
             /\ Keep)

buic_init_unloads_on_error(reply) ==
    /\ Invoked
    /\ check_loaded("buic_init", <<>>,
         LET r == Invoke("BUICInit", <<>>, reply)
         IN  /\ Finish("buic_init", <<>>,
                       TryNative(r, "Failed to initialize DLL"), r.log)
             /\ dll_loaded' = ~r.thrown
             /\ UNCHANGED <<lib, dll_path>>)

buic_init(reply) ==
    /\ Invoked
    /\ check_loaded("buic_init", <<>>,
         LET r == Invoke("BUICInit", <<>>, reply)
         IN  /\ Finish("buic_init", <<>>,
                       TryNative(r, "Failed to initialize DLL"), r.log)
             /\ Keep)

(* The library writes the two ids through the pointers it is given *)
is_dcc_usb_scanner_available(reply, ids) ==
    /\ Invoked
    /\ check_loaded("is_dcc_usb_scanner_available", <<>>,
         LET r == Invoke("IsDCCUSBScannerAvailable",
                         <<"byref(VENDOR_ID)", "byref(PRODUCT_ID)">>, reply)
         IN  /\ Finish("is_dcc_usb_scanner_available", <<>>,
                   IF r.thrown
                   THEN Raise("BuicapException",
                          <<Lit("Failed to check USB scanner availability")>>)
                   ELSE Return([vendor_id |-> ids[1], product_id |-> ids[2],
                                result |-> r.code]),
                   r.log)
             /\ Keep)

close_flag_after_exit(reply) ==
    /\ Invoked
    /\ check_loaded("close", <<>>,
         IF ~dll_loaded
         THEN Finish("close", <<>>, Return(PyNone), <<>>) /\ Keep
         ELSE LET r == Invoke("BUICExit", <<>>, reply)
              IN  /\ dll_loaded' = r.thrown
                  /\ Finish("close", <<>>,
                            TryNative(r, "Failed to close DLL"), r.log)
                  /\ lib' = IF r.thrown THEN lib ELSE NoneLib
                  /\ dll_path' = IF r.thrown THEN dll_path ELSE NonePath)

close_without_finally(reply) ==
    /\ Invoked
    /\ check_loaded("close", <<>>,
         IF ~dll_loaded
         THEN Finish("close", <<>>, Return(PyNone), <<>>) /\ Keep
         ELSE LET r == Invoke("BUICExit", <<>>, reply)
              IN  /\ dll_loaded' = FALSE
                  /\ Finish("close", <<>>,
                            TryNative(r, "Failed to close DLL"), r.log)
                  /\ lib' = IF r.thrown THEN lib ELSE NoneLib
                  /\ dll_path' = IF r.thrown THEN dll_path ELSE NonePath)

close(reply) ==
    /\ Invoked
    /\ check_loaded("close", <<>>,
         IF ~dll_loaded
         THEN Finish("close", <<>>, Return(PyNone), <<>>) /\ Keep
         ELSE LET r == Invoke("BUICExit", <<>>, reply)
              IN  /\ dll_loaded' = FALSE
                  /\ Finish("close", <<>>,
                            TryNative(r, "Failed to close DLL"), r.log)
                  /\ lib' = NoneLib
                  /\ dll_path' = NonePath)

eject_document(reply) ==
    /\ Invoked
    /\ check_loaded("eject_document", <<>>,
         LET r == Invoke("BUICEjectDocument", <<>>, reply)
         IN  /\ Finish("eject_document", <<>>,
                       TryNative(r, "Failed to eject document"), r.log)
             /\ Keep)

(* The ValueError is raised inside the try and leaves as BuicapException *)
buic_eject_pocket(iDirection, iPocket, reply) ==
    /\ Invoked
    /\ check_loaded("buic_eject_pocket", <<iDirection, iPocket>>,
         IF iPocket # 0
         THEN /\ Finish("buic_eject_pocket", <<iDirection, iPocket>>,
                    Raise("BuicapException", <<Lit("Failed to eject pocket")>>),
                    <<>>)
              /\ Keep
         ELSE LET r == Invoke("BUICEjectPocket", <<iDirection, iPocket>>, reply)
              IN  /\ Finish("buic_eject_pocket", <<iDirection, iPocket>>,
                            TryNative(r, "Failed to eject pocket"), r.log)
                  /\ Keep)

dcc_clean_mode_negative_only(iMode, reply) ==
    /\ Invoked
    /\ check_loaded("dcc_clean_mode", <<iMode>>,
         IF iMode < 0
         THEN /\ Finish("dcc_clean_mode", <<iMode>>,
                    Raise("ValueError", <<Lit("iMode must be 0 or 1")>>), <<>>)
              /\ Keep
         ELSE LET r == Invoke("DCCCleanMode", <<iMode>>, reply)
              IN  /\ Finish("dcc_clean_mode", <<iMode>>,
                            TryNative(r, "Failed to set clean mode"), r.log)
                  /\ Keep)

dcc_clean_mode(iMode, reply) ==
    /\ Invoked
    /\ check_loaded("dcc_clean_mode", <<iMode>>,
         IF iMode \notin {0, 1}
         THEN /\ Finish("dcc_clean_mode", <<iMode>>,
                    Raise("ValueError", <<Lit("iMode must be 0 or 1")>>), <<>>)
              /\ Keep
         ELSE LET r == Invoke("DCCCleanMode", <<iMode>>, reply)
              IN  /\ Finish("dcc_clean_mode", <<iMode>>,
                            TryNative(r, "Failed to set clean mode"), r.log)
                  /\ Keep)

buic_clean_document_raises_negative(reply) ==
    /\ Invoked
    /\ check_loaded("buic_clean_document", <<>>,
         LET r == Invoke("BUICCleanDocument", <<>>, reply)
         IN  /\ Finish("buic_clean_document", <<>>,
                       IF r.thrown \/ r.code < 0
                       THEN Raise("BuicapException",
                                  <<Lit("Failed to clean document")>>)
                       ELSE Return(r.code),
                       r.log)
             /\ Keep)

buic_clean_document(reply) ==
    /\ Invoked
    /\ check_loaded("buic_clean_document", <<>>,
         LET r == Invoke("BUICCleanDocument", <<>>, reply)
         IN  /\ Finish("buic_clean_document", <<>>,
                       TryNative(r, "Failed to clean document"), r.log)
             /\ Keep)

docket_port_calibrate(iMode, reply) ==
    /\ Invoked
    /\ check_loaded("docket_port_calibrate", <<iMode>>,
         IF iMode \notin {0, 1}
         THEN /\ Finish("docket_port_calibrate", <<iMode>>,
                    Raise("ValueError", <<Lit("iMode must be 0 or 1")>>), <<>>)
              /\ Keep
         ELSE LET r == Invoke("DocketPortCalibrate", <<iMode>>, reply)
              IN  /\ Finish("docket_port_calibrate", <<iMode>>,
                            TryNative(r, "Failed to calibrate docket port"),
                            r.log)
                  /\ Keep)

buic_set_param_nonzero(iParam, iValue, reply) ==
    /\ Invoked
    /\ check_loaded("buic_set_param", <<iParam, iValue>>,
         LET r == Invoke("BUICSetParam", <<iParam, iValue>>, reply)
         IN  /\ Finish("buic_set_param", <<iParam, iValue>>,
                   IF r.thrown THEN Raise(r.exc, <<>>)
                   ELSE IF r.code # 0
                   THEN Raise("BuicapException",
                              <<Lit("Failed to set parameter "),
                                Num(iParam), Lit(": ")>>
                              \o _error_message(r.code))
                   ELSE Return(r.code),
                   r.log)
             /\ Keep)

buic_set_param(iParam, iValue, reply) ==
    /\ Invoked
    /\ check_loaded("buic_set_param", <<iParam, iValue>>,
         LET r == Invoke("BUICSetParam", <<iParam, iValue>>, reply)
         IN  /\ Finish("buic_set_param", <<iParam, iValue>>,
                   IF r.thrown THEN Raise(r.exc, <<>>)
                   ELSE IF r.code < 0
                   THEN Raise("BuicapException",
                              <<Lit("Failed to set parameter "),
                                Num(iParam), Lit(": ")>>
                              \o _error_message(r.code))
                   ELSE Return(r.code),
                   r.log)
             /\ Keep)

buic_get_param(iParam, reply) ==
    /\ Invoked
    /\ check_loaded("buic_get_param", <<iParam>>,
         LET r == Invoke("BUICGetParam", <<iParam>>, reply)
         IN  /\ Finish("buic_get_param", <<iParam>>,
                   IF r.thrown THEN Raise(r.exc, <<>>) ELSE Return(r.code),
                   r.log)
             /\ Keep)

(* x.encode("ascii") if x else None: an omitted or empty path becomes None *)
Given(path) == ~path.none /\ path.bytes # <<>>
PathArg_empty(path) ==
    IF Given(path) THEN Bytes(EncodeAscii(path.bytes).bytes) ELSE Bytes(<<>>)

PathArg(path) ==
    IF Given(path) THEN Bytes(EncodeAscii(path.bytes).bytes) ELSE PyNone

(* paths: front_tiff, back_tiff, front_jpeg, back_jpeg, each PyNone when
   omitted; scanned: what the library writes through its output pointers *)
dcc_scan(paths, reply, scanned) ==
    /\ Invoked
    /\ check_loaded("dcc_scan", paths,
         IF \E i \in 1..4 : Given(paths[i]) /\ ~EncodeAscii(paths[i].bytes).ok
         THEN /\ Finish("dcc_scan", paths,
                        Raise("UnicodeEncodeError", <<>>), <<>>)
              /\ Keep
         ELSE LET r == Invoke("DCCScan",
                         <<PathArg(paths[1]), PathArg(paths[2]),
                           PathArg(paths[3]), PathArg(paths[4]),
                           "micr_buffer", "byref(final_image_quality)",
                           "byref(final_contrast)", "doc_status">>,
                         reply)
              IN  /\ Finish("dcc_scan", paths,
                       IF r.thrown THEN Raise(r.exc, <<>>)
                       ELSE Return(
                          [micr |-> MicrText(scanned.micr),
                           final_image_quality |-> scanned.quality,
                           final_contrast |-> scanned.contrast,
                           doc_status |-> DocStatus(scanned.flags),
                           result |-> r.code]),
                       r.log)
                  /\ Keep)

----------------------------------------------------------------------------
(* Inputs the caller and the library are drawn from *)

ParamIds == {1, 2}
ParamValues == {0, 5}
ParamStrings == {<<>>, <<78, 79>>, <<233>>}
Modes == {-1, 0, 1, 2}
Directions == {0, 1, 3}
Pockets == {0, 1}
UsbIds == {<<0, 0>>, <<2571, 30>>}
Supplied == {Bytes(<<102, 46, 116, 105, 102>>), Bytes(<<241, 46, 116, 105, 102>>)}
ScanPaths ==
    { [i \in 1..4 |-> IF i \in omitted THEN PyNone ELSE p] :
        omitted \in SUBSET (1..4), p \in Supplied }
NoScan == [micr |-> <<>>, quality |-> 0, contrast |-> 0, flags |-> {}]
ScanA == [micr |-> <<32, 65, 66, 10>>, quality |-> 90, contrast |-> 40,
          flags |-> {1}]
ScanB == [micr |-> <<67, 200, 0, 68>>, quality |-> 55, contrast |-> 60,
          flags |-> {DocStatusLen}]
ScanReplies ==
    { [reply |-> [thrown |-> TRUE, code |-> 0], scanned |-> NoScan],
      [reply |-> [thrown |-> FALSE, code |-> 0], scanned |-> ScanA],
      [reply |-> [thrown |-> FALSE, code |-> 0], scanned |-> ScanB],
      [reply |-> [thrown |-> FALSE, code |-> 1], scanned |-> ScanA],
      [reply |-> [thrown |-> FALSE, code |-> SCAN_NO_CHEQUES],
       scanned |-> NoScan],
      [reply |-> [thrown |-> FALSE, code |-> -1], scanned |-> ScanB] }

Next ==
    \/ \E p \in Paths, e \in BOOLEAN, l \in BOOLEAN, x \in Libraries :
          Construct(p, e, l, x)
    \/ \E i \in ParamIds, s \in ParamStrings, r \in Replies :
          buic_set_param_string(i, s, r)
    \/ \E r \in Replies : buic_init(r)
    \/ \E r \in Replies, ids \in UsbIds : is_dcc_usb_scanner_available(r, ids)
    \/ \E r \in Replies : close(r)
    \/ \E r \in Replies : eject_document(r)
    \/ \E d \in Directions, k \in Pockets, r \in Replies :
          buic_eject_pocket(d, k, r)
    \/ \E m \in Modes, r \in Replies : dcc_clean_mode(m, r)
    \/ \E r \in Replies : buic_clean_document(r)
    \/ \E m \in Modes, r \in Replies : docket_port_calibrate(m, r)
    \/ \E i \in ParamIds, v \in ParamValues, r \in Replies :
          buic_set_param(i, v, r)
    \/ \E i \in ParamIds, r \in Replies : buic_get_param(i, r)
    \/ \E ps \in ScanPaths, sr \in ScanReplies :
          dcc_scan(ps, sr.reply, sr.scanned)

Spec == Init /\ [][Next]_vars

----------------------------------------------------------------------------
(* Properties *)

PublicOps ==
    { "buic_set_param_string", "buic_init", "is_dcc_usb_scanner_available",
      "eject_document", "buic_eject_pocket", "dcc_clean_mode",
      "buic_clean_document", "docket_port_calibrate", "buic_set_param",
      "buic_get_param", "dcc_scan" }

(* The native call the last operation issued returned a code *)
NativeReturned == Len(last.natives) = 1 /\ ~last.natives[1].thrown

(* C1: every public operation invoked while the facade is Unloaded fails
   with BuicapException("DLL not loaded") and issues no native call. *)
C1_UnloadedRejected ==
    (last.op \in PublicOps /\ ~last.was_loaded) =>
        /\ last.out.kind = "raise"
        /\ last.out.exc = "BuicapException"
        /\ Lit("DLL not loaded") \in Range(last.out.msg)
        /\ last.natives = <<>>

C1_Witness ==
    /\ last.op = "dcc_scan"
    /\ ~last.was_loaded
    /\ last.out.kind = "raise"
    /\ exitCalls = 1

(* C2: close invoked right after a close of a Loaded facade returns without
   error, issues no native call, and leaves the facade Unloaded. *)
C2_CloseIdempotent ==
    (last.op = "close" /\ last.follows_close) =>
        /\ last.out.kind = "return"
        /\ last.natives = <<>>
        /\ ~dll_loaded

(* C3: once close has run on a Loaded facade, whether BUICExit returned or
   threw, the flag is down and lib and dll_path are None; from then on every
   operation is rejected without a native call. *)
C3_CloseClears ==
    /\ (last.op = "close" /\ last.was_loaded) =>
          (~dll_loaded /\ lib = NoneLib /\ dll_path = NonePath)
    /\ (phase = "constructed" /\ ~dll_loaded) =>
          (lib = NoneLib /\ dll_path = NonePath)
    /\ (last.op \in PublicOps \cup {"close"} /\ ~last.was_loaded) =>
          (last.out.kind = "raise" /\ last.natives = <<>>)

C3_Witness ==
    /\ last.op = "close"
    /\ last.was_loaded
    /\ last.out.kind = "raise"
    /\ Len(last.natives) = 1
    /\ last.natives[1].thrown

(* C4: construction with a path that does not exist fails before the library
   is loaded or called; every failed construction leaves the flag down and no
   library handle set; a handle that is set has every load-time symbol resolved. *)
C4_ConstructionAllOrNothing ==
    /\ (last.op = "__init__" /\ ~last.exists) =>
          /\ phase = "failed"
          /\ last.out.exc = "FileNotFoundError"
          /\ last.loads = 0
          /\ nativeCalls = 0
    /\ phase = "failed" => (~dll_loaded /\ lib.st # "set")
    /\ lib.st = "set" => setup_functions(lib.exports) = 0
    /\ dll_loaded => lib.st = "set"

C4_Witness ==
    /\ phase = "failed"
    /\ last.op = "__init__"
    /\ last.loads = 1
    /\ Lit("DCCScan") \in Range(last.out.msg)

(* The last call failed range validation by the facade's rules *)
OutOfRange ==
    \/ last.op \in {"dcc_clean_mode", "docket_port_calibrate"}
         /\ last.args[1] \notin {0, 1}
    \/ last.op = "buic_eject_pocket" /\ last.args[2] # 0

(* Every path the last scan was given encodes as ASCII *)
AllSuppliedAscii ==
    \A i \in 1..4 : \A k \in DOMAIN last.args[i].bytes :
        last.args[i].bytes[k] < 128

(* C5: on a Loaded facade, a cleaning or calibration mode other than 0 or 1,
   or a non-zero pocket, fails before any native call and leaves the facade
   Loaded. *)
C5_RangeCheckedFirst ==
    (last.was_loaded /\ OutOfRange) =>
        /\ last.out.kind = "raise"
        /\ last.out.exc \in {"ValueError", "BuicapException"}
        /\ last.natives = <<>>
        /\ dll_loaded
        /\ lib.st = "set"

C5_Witness ==
    /\ last.was_loaded
    /\ last.op = "dcc_clean_mode"
    /\ last.args[1] = 2
    /\ last.out.kind = "raise"

(* C6: when the native set-parameter call returns an error code (non-zero for
   the string setter, negative for the integer setter) the operation raises a
   BuicapException whose message holds the dictionary's description of the
   code, or the unknown-error text with the code, and the parameter
   identifier; for any other code it returns the code. *)
C6_SetParamErrors ==
    (last.op \in {"buic_set_param_string", "buic_set_param"}
        /\ last.was_loaded /\ NativeReturned) =>
        LET c == last.natives[1].ret
            isError == IF last.op = "buic_set_param_string" THEN c # 0
                       ELSE c < 0
        IN  IF isError
            THEN /\ last.out.kind = "raise"
                 /\ last.out.exc = "BuicapException"
                 /\ Num(last.args[1]) \in Range(last.out.msg)
                 /\ IF c \in DOMAIN error_dict
                    THEN Lit(error_dict[c]) \in Range(last.out.msg)
                    ELSE /\ Lit("Unknown error (code: ") \in Range(last.out.msg)
                         /\ Num(c) \in Range(last.out.msg)
            ELSE /\ last.out.kind = "return"
                 /\ last.out.value = c

C6_Witness ==
    /\ last.op = "buic_set_param"
    /\ last.was_loaded
    /\ NativeReturned
    /\ last.natives[1].ret = SCAN_NO_CHEQUES
    /\ last.out.kind = "raise"
    /\ Lit(error_dict[SCAN_NO_CHEQUES]) \in Range(last.out.msg)

AllOps == PublicOps \cup {"close"}

(* C7 as stated: the failure raised for an operation invoked while Unloaded
   names the operation that was attempted. *)
C7_NotLoadedNamesOperation ==
    (last.op \in AllOps /\ ~last.was_loaded) =>
        (last.out.kind = "raise" /\ Lit(last.op) \in Range(last.out.msg))

(* C7 as amended: the failure raised for an operation invoked while Unloaded
   is the same for every operation, a BuicapException whose whole message is
   "DLL not loaded"; it does not carry the operation. *)
C7_NotLoadedSameForAll ==
    (last.op \in AllOps /\ ~last.was_loaded) =>
        /\ last.out.kind = "raise"
        /\ last.out.exc = "BuicapException"
        /\ last.out.msg = <<Lit("DLL not loaded")>>

C7_Witness ==
    /\ last.op = "buic_get_param"
    /\ ~last.was_loaded
    /\ last.out.msg = <<Lit("DLL not loaded")>>

(* C8: on a Loaded facade every entry point an operation calls was resolved
   by construction, so an operation whose arguments pass validation always
   reaches the library: none fails at call time on a missing symbol. *)
C8_CallSitesResolvedAtLoad ==
    /\ dll_loaded => CallSiteSymbols \subseteq lib.exports
    /\ (last.op \in AllOps /\ last.was_loaded /\ ~OutOfRange
          /\ (last.op = "dcc_scan" => AllSuppliedAscii)) =>
          Len(last.natives) = 1

(* C9: on a Loaded facade, eject document returns the native code when it is
   0 or -212, and clean document returns it when it is -212 or -217; neither
   raises. *)
C9_OutcomesReturnedAsData ==
    (last.was_loaded /\ NativeReturned
        /\ \/ last.op = "eject_document"
                /\ last.natives[1].ret \in {0, SCAN_NO_CHEQUES}
           \/ last.op = "buic_clean_document"
                /\ last.natives[1].ret \in {SCAN_NO_CHEQUES, SCAN_DOUBLE_FEED}) =>
        /\ last.out.kind = "return"
        /\ last.out.value = last.natives[1].ret

C9_Witness ==
    /\ last.op = "buic_clean_document"
    /\ last.was_loaded
    /\ NativeReturned
    /\ last.out = Return(SCAN_DOUBLE_FEED)

(* What a scan that reached the library must look like *)
ScanWellFormed ==
    /\ Len(last.natives) = 1
    /\ last.natives[1].fn = "DCCScan"
    /\ \A i \in 1..4 :
          last.args[i].none => last.natives[1].args[i] = PyNone
    /\ ~last.natives[1].thrown =>
          /\ last.out.kind = "return"
          /\ DOMAIN last.out.value =
                {"micr", "final_image_quality", "final_contrast",
                 "doc_status", "result"}
          /\ last.out.value.micr \in Seq(0..127)
          /\ last.out.value.final_image_quality \in Int
          /\ last.out.value.final_contrast \in Int
          /\ Len(last.out.value.doc_status) = DocStatusLen
          /\ last.out.value.result = last.natives[1].ret

(* C10 as stated: a scan on a Loaded facade, whichever paths are omitted,
   issues exactly one native scan call with a null for each omitted path and
   returns the five-field result for every status code. *)
C10_ScanAnyPaths ==
    (last.op = "dcc_scan" /\ last.was_loaded) => ScanWellFormed

(* C10 as amended: the same, provided every supplied path encodes as ASCII;
   a supplied path with a non-ASCII character raises UnicodeEncodeError
   before any native call. *)
C10_ScanAsciiPaths ==
    (last.op = "dcc_scan" /\ last.was_loaded) =>
        IF AllSuppliedAscii
        THEN ScanWellFormed
        ELSE /\ last.out.kind = "raise"
             /\ last.out.exc = "UnicodeEncodeError"
             /\ last.natives = <<>>

C10_Witness ==
    /\ last.op = "dcc_scan"
    /\ last.was_loaded
    /\ \A i \in 1..4 : last.args[i].none
    /\ NativeReturned
    /\ last.natives[1].ret = SCAN_NO_CHEQUES
    /\ last.out.kind = "return"

(* C11: close is the only step that takes a Loaded facade to Unloaded: any
   other operation invoked on a Loaded facade, whether it returns, fails
   validation or fails in the library, leaves the flag, the library handle
   and the library path as they were. *)
C11_OnlyCloseUnloads ==
    [][(dll_loaded /\ last'.op # "close") =>
          (dll_loaded' /\ lib' = lib /\ dll_path' = dll_path)]_vars

C11_Witness ==
    /\ last.op = "buic_init"
    /\ last.was_loaded
    /\ last.out.kind = "raise"
    /\ last.out.exc = "BuicapException"
    /\ dll_loaded
    /\ lib.st = "set"
    /\ dll_path.st = "set"

(* C12: over any run of operations on one facade, BUICExit is issued at most
   once, every operation issues at most one native call, and once BUICExit
   has been issued no native call of any kind is issued again. *)
C12_ExitOnceThenSilent ==
    /\ [](exitCalls <= 1 /\ Len(last.natives) <= 1)
    /\ [][/\ nativeCalls' <= nativeCalls + 1
          /\ exitCalls >= 1 =>
                (nativeCalls' = nativeCalls /\ last'.natives = <<>>)]_vars

C12_Witness ==
    /\ exitCalls = 1
    /\ nativeCalls = 1
    /\ last.op = "close"
    /\ ~last.was_loaded
    /\ last.natives = <<>>
====
